---- MODULE Spec2Model ----
(***************************************************************************)
(* Payment reconciliation engine of the bank file tracker backend:         *)
(*   - the webhook gateway (verifyWebhookSignature and the /bkash, /nagad  *)
(*     routes) of backend/src/routes/webhooks.ts,                          *)
(*   - the matcher/ledger (processBkashWebhook, processNagadWebhook),      *)
(*   - collection submission and manual verification of the collections    *)
(*     routes (POST /api/collections, POST /api/collections/:id/verify).   *)
(* Every await of the handlers is a scheduling point, so each handler is   *)
(* split into one action per database call.                                *)
(***************************************************************************)
EXTENDS Integers, Sequences, FiniteSets, TLC

(***************************************************************************)
(* Bounds of the model.                                                    *)
(***************************************************************************)
MaxReq == 2
MaxColl == 2
MaxVer == 1
\* deliveries of the specifications that process one delivery after the other
MaxSeqReq == 1
\* accounts, calls of check_sla_breaches(), and alert jobs
MaxAcct == 2
MaxSweep == 2
MaxAlert == 2
\* recorded contacts
MaxContact == 1

Reqs == 1..MaxReq
Vers == 1..MaxVer

(***************************************************************************)
(* Program constants.                                                      *)
(***************************************************************************)
HourMs == 60 * 60 * 1000
WindowMs == 24 * 60 * 60 * 1000
ToleranceMs == 5 * 60 * 1000

(***************************************************************************)
(* JavaScript values.  A number is <<v>>, NaN is <<>>.  A string of        *)
(* characters is a sequence of one-character strings.                      *)
(***************************************************************************)
NaN == <<>>
Num(v) == <<v>>
IsNaN(n) == n = <<>>

Digits == {"0", "1", "2", "3", "4", "5", "6", "7", "8", "9"}
DigitVal(c) ==
  CASE c = "0" -> 0 [] c = "1" -> 1 [] c = "2" -> 2 [] c = "3" -> 3
    [] c = "4" -> 4 [] c = "5" -> 5 [] c = "6" -> 6 [] c = "7" -> 7
    [] c = "8" -> 8 [] c = "9" -> 9

\* Length of the longest prefix of s made of digits.
RECURSIVE DigitPrefixLen(_)
DigitPrefixLen(s) ==
  IF s = <<>> \/ Head(s) \notin Digits THEN 0 ELSE 1 + DigitPrefixLen(Tail(s))

RECURSIVE DigitsValue(_, _)
DigitsValue(s, acc) ==
  IF s = <<>> THEN acc ELSE DigitsValue(Tail(s), 10 * acc + DigitVal(Head(s)))

\* parseInt(s): the number written by the leading digits, NaN when there are none.
ParseInt(s) ==
  LET n == DigitPrefixLen(s)
  IN IF n = 0 THEN NaN ELSE Num(DigitsValue(SubSeq(s, 1, n), 0))

\* new Date(str).getTime(): a date string is [valid, ms]; an unparsable one gives NaN.
DateGetTime(d) == IF d.valid THEN Num(d.ms) ELSE NaN

(***************************************************************************)
(* HMAC and hex.  A digest is a sequence of abstract bytes; the MAC is     *)
(* ideal (different key or message, different digest).  A hex string is a  *)
(* sequence of two-character tokens: [hex, b, up] writes byte b in lower   *)
(* or upper case; BadPair is a pair of characters that is not hexadecimal. *)
(***************************************************************************)
NoByte == [k |-> "", m |-> [timestamp |-> <<>>, body |-> ""]]
BadPair == [hex |-> FALSE, b |-> NoByte, up |-> FALSE]

Hmac(secret, payload) == << [k |-> secret, m |-> payload] >>

\* digest('hex')
HexEncode(bytes) ==
  [i \in 1..Len(bytes) |-> [hex |-> TRUE, b |-> bytes[i], up |-> FALSE]]

RECURSIVE HexDecode(_)
\* Buffer.from(str, 'hex'): decoding stops at the first pair that is not hex.
HexDecode(toks) ==
  IF toks = <<>> \/ ~Head(toks).hex THEN <<>>
  ELSE <<Head(toks).b>> \o HexDecode(Tail(toks))

\* `${timestamp}.${JSON.stringify(req.body)}` or JSON.stringify(req.body)
\* (an absent timestamp is the empty string; a JSON object never starts with
\* digits and a dot, so the pair determines the string and conversely)
PayloadString(timestamp, body) == [timestamp |-> timestamp, body |-> body]

\* A header value of the x-signature header: absent, or 'sha256=' (optional)
\* followed by hex tokens.
NoSignature == [present |-> FALSE, prefix |-> FALSE, hex |-> <<>>]
\* Mutant: only the empty string counts as missing, an absent header does not.
SignatureMissingOnlyEmpty(sig) == sig.present /\ ~sig.prefix /\ sig.hex = <<>>
\* !signature : undefined or the empty string
SignatureMissing(sig) == ~sig.present \/ (~sig.prefix /\ sig.hex = <<>>)
\* signature.replace('sha256=', '')
StripPrefix(sig) == sig.hex


\* JavaScript arithmetic on numbers that may be NaN.
JsTimes(n, k) == IF IsNaN(n) THEN NaN ELSE Num(n[1] * k)
JsAbsDiff(a, n) ==
  IF IsNaN(n) THEN NaN ELSE Num(IF a >= n[1] THEN a - n[1] ELSE n[1] - a)
\* n > k : every comparison with NaN is false
JsGreater(n, k) == ~IsNaN(n) /\ n[1] > k

(***************************************************************************)
(* State.                                                                  *)
(***************************************************************************)
VARIABLES
  secrets,          \* process.env.BKASH_WEBHOOK_SECRET / NAGAD_WEBHOOK_SECRET
  collections,      \* table Collection: sequence of rows, id = index
  webhookLogs,      \* table WebhookLog: sequence of rows, id = index
  reconciliations,  \* table Reconciliation: sequence of rows
  clock,            \* source of createdAt
  req,              \* webhook requests in flight or answered
  ver,              \* manual verification requests in flight or answered
  nodeEnv,          \* process.env.NODE_ENV
  eventLogs,        \* table EventLog: sequence of rows
  accounts,         \* table accounts: row per account id
  banks,            \* table banks: row per bank id (sla_settings)
  sweepRuns,        \* the tables returned by the calls of check_sla_breaches()
  alerts            \* table Alert: sequence of rows

vars == <<secrets, collections, webhookLogs, reconciliations, clock, req, ver,
          nodeEnv, eventLogs, accounts, banks, sweepRuns, alerts>>
\* the state of the SLA sweep and of alert processing
sweepState == <<accounts, banks, sweepRuns, alerts>>
db == <<collections, webhookLogs, reconciliations>>

Providers == {"bkash", "nagad"}
NoSecret == ""
\* the Collection.type a provider's processing function works on
ProviderType(p) == IF p = "bkash" THEN "BKASH" ELSE "NAGAD"
CollIds == 1..Len(collections)
AccountIds == 1..MaxAcct
BankIds == {1, 2}
\* an optional DateTime column that was never written
NoDate == 0
\* a key of sla_settings that is absent (->> gives NULL)
NoSetting == -1
\* an account of bank b created at time t, never contacted
NewAccount(b, t) == [bankId |-> b, createdAt |-> t, lastContactDate |-> NoDate]

NoResponse == [status |-> 0, matched |-> FALSE, collectionId |-> 0]
Response(st, m, c) == [status |-> st, matched |-> m, collectionId |-> c]

NoBody == [txnId |-> "", amount |-> 0, status |-> "", date |-> [valid |-> FALSE, ms |-> 0]]
IdleReq ==
  [pc |-> "idle", provider |-> "", body |-> NoBody, timestamp |-> <<>>,
   signature |-> NoSignature, now |-> 0, logId |-> 0, sel |-> 0, selTxnId |-> "",
   step |-> "", failedAt |-> "", replayOf |-> 0, res |-> NoResponse, route |-> ""]
IdleVer == [pc |-> "idle", id |-> 0, status |-> "", rejectionReason |-> "", res |-> 0]

(***************************************************************************)
(* Webhook gateway: verifyWebhookSignature(provider).                      *)
(* Result 0 stands for next(); any other value is the status it answers.   *)
(***************************************************************************)
\* The replay check: timeDiff > 5 * 60 * 1000
TimestampRejected(timestamp, now) ==
  LET timestampMs == JsTimes(ParseInt(timestamp), 1000)
      timeDiff == JsAbsDiff(now, timestampMs)
  IN JsGreater(timeDiff, ToleranceMs)

\* crypto.timingSafeEqual(a, b): "throw" when the lengths differ
TimingSafeEqual(a, b) ==
  IF Len(a) # Len(b) THEN "throw" ELSE IF a = b THEN "equal" ELSE "differ"

\* Mutant: the secret is never found missing.
SecretMissingNever(secret) == FALSE
\* !secret : the variable is unset or empty
SecretMissing(secret) == secret = NoSecret

VerifyWebhookSignature(secret, signature, timestamp, body, now) ==
  IF SignatureMissing(signature) THEN 401
  ELSE IF SecretMissing(secret) THEN 500
  ELSE LET payload == PayloadString(timestamp, body)
           expectedSignature == HexEncode(Hmac(secret, payload))
           providedSignature == StripPrefix(signature)
           cmp == TimingSafeEqual(HexDecode(expectedSignature),
                                  HexDecode(providedSignature))
       IN IF cmp = "throw" THEN 500
          ELSE IF cmp = "differ" THEN 401
          ELSE IF timestamp # <<>> /\ TimestampRejected(timestamp, now) THEN 401
          ELSE 0

\* Mutant: the schema accepts every amount.
SchemaAcceptsAnyAmount(body) == TRUE
\* bkashWebhookSchema / nagadWebhookSchema: amount: z.number().positive()
SchemaAccepts(body) == body.amount > 0

\* History: the first request, if any, that was answered 200 for this
\* (provider, external id) before the present delivery arrived; 0 when none.
ProcessedBefore(provider, txnId) ==
  LET prior == {q \in Reqs : /\ req[q].pc = "done"
                             /\ req[q].res.status = 200
                             /\ req[q].provider = provider
                             /\ req[q].body.txnId = txnId}
  IN IF prior = {} THEN 0 ELSE CHOOSE q \in prior : \A o \in prior : q <= o

(***************************************************************************)
(* POST /webhook/bkash, POST /webhook/nagad: the middleware and the        *)
(* synchronous head of the route, up to the first await.                   *)
(***************************************************************************)
Receive(r, provider, body, timestamp, signature, now) ==
  /\ req[r].pc = "idle"
  /\ \A q \in Reqs : q < r => req[q].pc # "idle"
  /\ LET v == VerifyWebhookSignature(secrets[provider], signature, timestamp, body, now)
         base == [IdleReq EXCEPT !.provider = provider, !.body = body,
                                 !.timestamp = timestamp, !.signature = signature,
                                 !.now = now, !.route = "/" \o provider,
                                 !.replayOf = ProcessedBefore(provider, body.txnId)]
     IN req' = [req EXCEPT ![r] =
          IF v # 0 THEN [base EXCEPT !.pc = "done", !.step = "verify",
                                     !.res = Response(v, FALSE, 0)]
          ELSE IF ~SchemaAccepts(body)
                 THEN [base EXCEPT !.pc = "done", !.step = "schema",
                                   !.res = Response(400, FALSE, 0)]
          ELSE [base EXCEPT !.pc = "createLog"]]
  /\ UNCHANGED <<sweepState, nodeEnv, eventLogs, secrets, collections, webhookLogs, reconciliations, clock, ver>>

(***************************************************************************)
(* POST /webhook/test: no middleware; the head of the route up to the      *)
(* first await of processBkashWebhook / processNagadWebhook.               *)
(***************************************************************************)
\* if (process.env.NODE_ENV === 'production') return res.status(403)
TestRouteClosed(env) == env = "production"

\* mockData: txnId || `TEST_${Date.now()}`, amount || 100, status || 'SUCCESS',
\* date: new Date().toISOString()
MockData(body, now) ==
  [txnId |-> IF body.txnId = "" THEN "TEST" ELSE body.txnId,
   amount |-> IF body.amount = 0 THEN 100 ELSE body.amount,
   status |-> IF body.status = "" THEN "SUCCESS" ELSE body.status,
   date |-> [valid |-> TRUE, ms |-> now]]

ReceiveTest(r, provider, body, now) ==
  /\ req[r].pc = "idle"
  /\ \A q \in Reqs : q < r => req[q].pc # "idle"
  /\ LET base == [IdleReq EXCEPT !.provider = provider, !.body = body, !.now = now,
                                 !.route = "/test"]
     IN req' = [req EXCEPT ![r] =
          IF TestRouteClosed(nodeEnv)
            THEN [base EXCEPT !.pc = "done", !.step = "environment",
                              !.res = Response(403, FALSE, 0)]
          ELSE IF provider \notin Providers
            THEN [base EXCEPT !.pc = "done", !.step = "provider",
                              !.res = Response(400, FALSE, 0)]
          ELSE [base EXCEPT !.pc = "createLog", !.body = MockData(body, now),
                            !.replayOf = ProcessedBefore(provider, MockData(body, now).txnId)]]
  /\ UNCHANGED <<sweepState, nodeEnv, eventLogs, secrets, collections, webhookLogs, reconciliations, clock, ver>>

(***************************************************************************)
(* processBkashWebhook / processNagadWebhook, one action per await.        *)
(***************************************************************************)
\* Mutant: every status other than FAILED attempts matching.
IsSuccessUnlessFailed(status) == status # "FAILED"
IsSuccess(status) == status = "SUCCESS" \/ status = "COMPLETED"

\* The unique key (provider, external transaction id) of the delivery record:
\* a row with this key exists, so that an insert fails with P2002.
LogKeyTaken(provider, txnId) ==
  \E i \in 1..Len(webhookLogs) :
    webhookLogs[i].provider = ProviderType(provider) /\ webhookLogs[i].txnId = txnId

\* errorHandler: the status answered for a PrismaClientKnownRequestError
PrismaKnownErrorStatus(code) == IF code = "P2025" THEN 404 ELSE 400

\* Mutant: the matcher is entered without the insert of the delivery record.
CreateLogSkipped(r) ==
  /\ req[r].pc = "createLog"
  /\ req' = [req EXCEPT ![r].pc = "findExact"]
  /\ UNCHANGED <<sweepState, nodeEnv, eventLogs, secrets, collections, webhookLogs, reconciliations, clock, ver>>

\* prisma.webhookLog.create
CreateLog(r) ==
  /\ req[r].pc = "createLog"
  /\ IF LogKeyTaken(req[r].provider, req[r].body.txnId)
       THEN /\ req' = [req EXCEPT ![r].pc = "done", ![r].step = "createLog",
                        ![r].res = Response(PrismaKnownErrorStatus("P2002"), FALSE, 0)]
            /\ UNCHANGED webhookLogs
       ELSE /\ webhookLogs' = Append(webhookLogs,
                 [provider |-> ProviderType(req[r].provider), txnId |-> req[r].body.txnId,
                  amount |-> req[r].body.amount, status |-> req[r].body.status])
            /\ req' = [req EXCEPT ![r] =
                 IF IsSuccess(req[r].body.status)
                   THEN [@ EXCEPT !.pc = "findExact", !.logId = Len(webhookLogs) + 1]
                   ELSE [@ EXCEPT !.pc = "done", !.step = "notSuccess",
                                  !.logId = Len(webhookLogs) + 1,
                                  !.res = Response(200, FALSE, 0)]]
  /\ UNCHANGED <<sweepState, nodeEnv, eventLogs, secrets, collections, reconciliations, clock, ver>>

\* Mutant: the exact lookup without the transaction id condition.
ExactCandidatesAnyTxnId(provider, body) ==
  {c \in CollIds : /\ collections[c].type = ProviderType(provider)
                   /\ collections[c].status = "PENDING"}
\* where: { type, txnId: data.txnId, status: 'PENDING' }
ExactCandidates(provider, body) ==
  {c \in CollIds : /\ collections[c].type = ProviderType(provider)
                   /\ collections[c].txnId = body.txnId
                   /\ collections[c].status = "PENDING"}

\* Mutant: gt / lt instead of gte / lte.
InWindowExclusive(collectionDate, paymentDate) ==
  /\ collectionDate > paymentDate - WindowMs
  /\ collectionDate < paymentDate + WindowMs
\* collectionDate: { gte: startDate, lte: endDate }
InWindow(collectionDate, paymentDate) ==
  /\ collectionDate >= paymentDate - WindowMs
  /\ collectionDate <= paymentDate + WindowMs

\* Mutant: the fuzzy lookup without the condition on the collection type.
FuzzyCandidatesAnyType(provider, body) ==
  {c \in CollIds : /\ collections[c].amount = body.amount
                   /\ InWindow(collections[c].collectionDate, DateGetTime(body.date)[1])
                   /\ collections[c].status = "PENDING"
                   /\ collections[c].isMatched = FALSE}
\* where: { type, amount, collectionDate: {gte, lte}, status: 'PENDING', isMatched: false }
FuzzyCandidates(provider, body) ==
  {c \in CollIds : /\ collections[c].type = ProviderType(provider)
                   /\ collections[c].amount = body.amount
                   /\ InWindow(collections[c].collectionDate, DateGetTime(body.date)[1])
                   /\ collections[c].status = "PENDING"
                   /\ collections[c].isMatched = FALSE}

\* Mutant: orderBy: { createdAt: 'desc' }.
NewestFirst(cands) ==
  {c \in cands : \A d \in cands : collections[c].createdAt >= collections[d].createdAt}
\* orderBy: { createdAt: 'asc' } : the rows findFirst may return
OldestFirst(cands) ==
  {c \in cands : \A d \in cands : collections[c].createdAt <= collections[d].createdAt}

\* prisma.collection.findFirst by transaction id
FindExact(r) ==
  /\ req[r].pc = "findExact"
  /\ LET cands == ExactCandidates(req[r].provider, req[r].body)
     IN IF cands = {}
          THEN req' = [req EXCEPT ![r].pc = "findFuzzy"]
          ELSE \E c \in cands :
                 req' = [req EXCEPT ![r].pc = "update", ![r].sel = c, ![r].step = "exact",
                                    ![r].selTxnId = collections[c].txnId]
  /\ UNCHANGED <<sweepState, nodeEnv, eventLogs, secrets, collections, webhookLogs, reconciliations, clock, ver>>

\* prisma.collection.findFirst by amount and date range
FindFuzzy(r) ==
  /\ req[r].pc = "findFuzzy"
  /\ IF IsNaN(DateGetTime(req[r].body.date))
       THEN \* new Date(NaN) as a query argument: the client throws, errorHandler answers 500
            req' = [req EXCEPT ![r].pc = "done", ![r].step = "badDate",
                               ![r].res = Response(500, FALSE, 0)]
       ELSE LET cands == OldestFirst(FuzzyCandidates(req[r].provider, req[r].body))
            IN IF cands = {}
                 THEN req' = [req EXCEPT ![r].pc = "done", ![r].step = "noMatch",
                                         ![r].res = Response(200, FALSE, 0)]
                 ELSE \E c \in cands :
                        req' = [req EXCEPT ![r].pc = "update", ![r].sel = c,
                                           ![r].step = "fuzzy",
                                           ![r].selTxnId = collections[c].txnId]
  /\ UNCHANGED <<sweepState, nodeEnv, eventLogs, secrets, collections, webhookLogs, reconciliations, clock, ver>>

\* data: { txnId, isMatched: true, webhookData, status: 'APPROVED' }
ClaimedRow(row, body) ==
  [row EXCEPT !.txnId = body.txnId, !.isMatched = TRUE, !.status = "APPROVED"]

\* prisma.collection.update where: { id: matchedCollection.id }
UpdateCollection(r) ==
  /\ req[r].pc = "update"
  /\ collections' = [collections EXCEPT ![req[r].sel] = ClaimedRow(@, req[r].body)]
  /\ req' = [req EXCEPT ![r].pc = "createRecon"]
  /\ UNCHANGED <<sweepState, nodeEnv, eventLogs, secrets, webhookLogs, reconciliations, clock, ver>>

\* Mutant: the comparison is made with the collection as updated, whose
\* transaction id is the event's.
MatchTypeAfterUpdate(txnId, selTxnId) == "EXACT"
\* matchType: data.txnId === matchedCollection.txnId ? 'EXACT' : 'FUZZY'
MatchType(txnId, selTxnId) == IF txnId = selTxnId THEN "EXACT" ELSE "FUZZY"

\* prisma.reconciliation.create and the 200 answer
CreateReconciliation(r) ==
  /\ req[r].pc = "createRecon"
  /\ reconciliations' = Append(reconciliations,
       [collectionId |-> req[r].sel, webhookLogId |-> req[r].logId, status |-> "MATCHED",
        matchType |-> MatchType(req[r].body.txnId, req[r].selTxnId)])
  /\ req' = [req EXCEPT ![r].pc = "done", ![r].res = Response(200, TRUE, req[r].sel)]
  /\ UNCHANGED <<sweepState, nodeEnv, eventLogs, secrets, collections, webhookLogs, clock, ver>>

\* The classes of error a Prisma call rejects with when the database fails:
\* a PrismaClientKnownRequestError carries a code (P2024: no connection from
\* the pool in time, P1017: the server closed the connection); the other
\* classes (unknown request error, initialization error, panic) carry none.
DbErrorClasses == {"PrismaClientKnownRequestError", "PrismaClientUnknownRequestError"}

\* errorHandler: the status answered for an error thrown by a Prisma call
ErrorHandlerStatus(errorClass, code) ==
  IF errorClass = "PrismaClientKnownRequestError" THEN PrismaKnownErrorStatus(code)
  ELSE 500

\* the positions of a request at which a database call is awaited
DbCalls == {"createLog", "findExact", "findFuzzy", "update", "createRecon"}

\* The awaited database call of request r rejects with a database failure:
\* the catch blocks rethrow, asyncHandler hands the error to errorHandler.
DbFailure(r, errorClass) ==
  /\ req[r].pc \in DbCalls
  /\ req' = [req EXCEPT ![r].pc = "done", ![r].step = "dbError",
                        ![r].failedAt = req[r].pc,
                        ![r].res = Response(ErrorHandlerStatus(errorClass, "P2024"),
                                            FALSE, 0)]
  /\ UNCHANGED <<sweepState, nodeEnv, eventLogs, secrets, collections, webhookLogs, reconciliations, clock, ver>>


(***************************************************************************)
(* Collections routes.                                                     *)
(***************************************************************************)
CollectionTypes == {"BKASH", "NAGAD", "CASH", "BANK_DEPOSIT"}

\* createCollectionSchema: amount positive; txnId required for BKASH and NAGAD
\* (slipNo and cashReceipt, required for the other types, are not modelled)
CreateCollectionAccepts(type, amount, txnId) ==
  /\ type \in CollectionTypes
  /\ amount > 0
  /\ (type \in {"BKASH", "NAGAD"} => txnId # "")

\* POST /api/collections: prisma.collection.create with status 'PENDING'
\* and prisma.eventLog.create (the request is answered 404 for an unknown account)
SubmitCollection(accountId, type, amount, collectionDate, txnId) ==
  /\ Len(collections) < MaxColl
  /\ CreateCollectionAccepts(type, amount, txnId)
  /\ accountId \in AccountIds
  /\ collections' = Append(collections,
       [accountId |-> accountId,
        type |-> type, amount |-> amount, collectionDate |-> collectionDate,
        txnId |-> txnId, status |-> "PENDING", isMatched |-> FALSE,
        createdAt |-> clock, verified |-> FALSE, rejectionReason |-> "",
        matchedAt |-> NoDate, matchSource |-> ""])
  /\ eventLogs' = Append(eventLogs,
       [action |-> "CREATE", resource |-> "collection",
        resourceId |-> Len(collections) + 1])
  /\ clock' = clock + 1
  /\ UNCHANGED <<sweepState, nodeEnv, secrets, webhookLogs, reconciliations, req, ver>>

\* verifyCollectionSchema: a rejection needs a reason
VerifyCollectionAccepts(status, rejectionReason) ==
  /\ status \in {"APPROVED", "REJECTED"}
  /\ (status = "REJECTED" => rejectionReason # "")

\* Mutant: the route without the test of the collection's status.
VerifyFindAnyStatus(v, id, status, rejectionReason) ==
  /\ ver[v].pc = "idle"
  /\ \A w \in Vers : w < v => ver[w].pc # "idle"
  /\ VerifyCollectionAccepts(status, rejectionReason)
  /\ ver' = [ver EXCEPT ![v] =
       [pc |-> IF id \in CollIds THEN "update" ELSE "done", id |-> id, status |-> status,
        rejectionReason |-> rejectionReason, res |-> IF id \in CollIds THEN 0 ELSE 404]]
  /\ UNCHANGED <<sweepState, nodeEnv, eventLogs, secrets, collections, webhookLogs, reconciliations, clock, req>>

\* POST /api/collections/:id/verify: prisma.collection.findUnique and the status test
VerifyFind(v, id, status, rejectionReason) ==
  /\ ver[v].pc = "idle"
  /\ \A w \in Vers : w < v => ver[w].pc # "idle"
  /\ VerifyCollectionAccepts(status, rejectionReason)
  /\ ver' = [ver EXCEPT ![v] =
       IF id \notin CollIds
         THEN [pc |-> "done", id |-> id, status |-> status,
               rejectionReason |-> rejectionReason, res |-> 404]
       ELSE IF collections[id].status # "PENDING"
         THEN [pc |-> "done", id |-> id, status |-> status,
               rejectionReason |-> rejectionReason, res |-> 400]
       ELSE [pc |-> "update", id |-> id, status |-> status,
             rejectionReason |-> rejectionReason, res |-> 0]]
  /\ UNCHANGED <<sweepState, nodeEnv, eventLogs, secrets, collections, webhookLogs, reconciliations, clock, req>>

\* data: { status, rejectionReason, verifiedById, verifiedAt }
VerifiedRow(row, status, rejectionReason) ==
  [row EXCEPT !.status = status,
              !.rejectionReason = IF status = "REJECTED" THEN rejectionReason ELSE "",
              !.verified = TRUE]

\* prisma.collection.update where: { id }
VerifyUpdate(v) ==
  /\ ver[v].pc = "update"
  /\ collections' = [collections EXCEPT ![ver[v].id] =
                       VerifiedRow(@, ver[v].status, ver[v].rejectionReason)]
  /\ ver' = [ver EXCEPT ![v].pc = "eventLog"]
  /\ UNCHANGED <<sweepState, nodeEnv, eventLogs, secrets, webhookLogs, reconciliations, clock, req>>

\* prisma.eventLog.create and the answer
VerifyEventLog(v) ==
  /\ ver[v].pc = "eventLog"
  /\ eventLogs' = Append(eventLogs,
       [action |-> "UPDATE", resource |-> "collection", resourceId |-> ver[v].id])
  /\ ver' = [ver EXCEPT ![v].pc = "done", ![v].res = 200]
  /\ UNCHANGED <<sweepState, nodeEnv, secrets, collections, webhookLogs,
                 reconciliations, clock, req>>

(***************************************************************************)
(* POST /api/accounts/:id/updates: a recorded contact with the borrower.   *)
(***************************************************************************)
\* prisma.update.create, prisma.account.update { lastContactDate: new Date() }
\* and prisma.eventLog.create
RecordUpdate(accountId) ==
  /\ accountId \in AccountIds
  /\ Len(SelectSeq(eventLogs, LAMBDA e : e.resource = "updates")) < MaxContact
  /\ accounts' = [accounts EXCEPT ![accountId].lastContactDate = clock]
  /\ eventLogs' = Append(eventLogs,
       [action |-> "CREATE", resource |-> "updates", resourceId |-> accountId])
  /\ UNCHANGED <<secrets, collections, webhookLogs, reconciliations, clock, req, ver,
                 nodeEnv, banks, sweepRuns, alerts>>

(***************************************************************************)
(* SLA sweep: the SQL function check_sla_breaches().  Times are in hours   *)
(* (clock is NOW()); EXTRACT(EPOCH FROM ...) is in seconds.                *)
(***************************************************************************)
\* EXTRACT(EPOCH FROM (NOW() - t))
EpochSince(t) == (clock - t) * 3600

\* COALESCE((b.sla_settings->>key)::INTEGER * unit, dflt)
SlaSeconds(setting, unit, dflt) == IF setting = NoSetting THEN dflt ELSE setting * unit

\* COALESCE(a.last_contact_date, a.created_at)
LastContact(a) ==
  IF accounts[a].lastContactDate = NoDate THEN accounts[a].createdAt
  ELSE accounts[a].lastContactDate

\* CASE WHEN age > 172800 THEN 'CRITICAL' WHEN age > 86400 THEN 'ERROR' ELSE 'WARNING'
DepositSeverity(age) ==
  IF age > 172800 THEN "CRITICAL" ELSE IF age > 86400 THEN "ERROR" ELSE "WARNING"

\* CASE WHEN age > 1209600 THEN 'CRITICAL' WHEN age > 604800 THEN 'ERROR' ELSE 'WARNING'
UpdateSeverity(age) ==
  IF age > 1209600 THEN "CRITICAL" ELSE IF age > 604800 THEN "ERROR" ELSE "WARNING"

\* WHERE c.status = 'PENDING' AND c.type IN ('CASH', 'BANK_DEPOSIT') AND age > SLA
DepositBreach(c) ==
  /\ collections[c].status = "PENDING"
  /\ collections[c].type \in {"CASH", "BANK_DEPOSIT"}
  /\ EpochSince(collections[c].createdAt) >
       SlaSeconds(banks[accounts[collections[c].accountId].bankId].depositHours,
                  3600, 172800)

\* Mutant: an account breaches from the SLA on (>= instead of >).
UpdateBreachInclusive(a) ==
  EpochSince(LastContact(a)) >=
    SlaSeconds(banks[accounts[a].bankId].updateDays, 86400, 604800)
\* WHERE age of the last contact > SLA
UpdateBreach(a) ==
  EpochSince(LastContact(a)) >
    SlaSeconds(banks[accounts[a].bankId].updateDays, 86400, 604800)

\* the rows of the first RETURN QUERY, in the order of the collection ids
DepositRows ==
  LET ids == SelectSeq([c \in 1..Len(collections) |-> c], LAMBDA c : DepositBreach(c))
  IN [i \in 1..Len(ids) |->
        [account_id |-> collections[ids[i]].accountId,
         breach_type |-> "DEPOSIT_DELAY",
         breach_hours |-> EpochSince(collections[ids[i]].createdAt) \div 3600,
         severity |-> DepositSeverity(EpochSince(collections[ids[i]].createdAt))]]

\* the rows of the second RETURN QUERY, in the order of the account ids
UpdateRows ==
  LET ids == SelectSeq([a \in 1..MaxAcct |-> a], LAMBDA a : UpdateBreach(a))
  IN [i \in 1..Len(ids) |->
        [account_id |-> ids[i],
         breach_type |-> "NO_UPDATE",
         breach_hours |-> EpochSince(LastContact(ids[i])) \div 3600,
         severity |-> UpdateSeverity(EpochSince(LastContact(ids[i])))]]

\* SELECT * FROM check_sla_breaches(): one run of the sweep
CheckSlaBreaches ==
  /\ Len(sweepRuns) < MaxSweep
  /\ sweepRuns' = Append(sweepRuns, [at |-> clock, rows |-> DepositRows \o UpdateRows])
  /\ UNCHANGED <<secrets, collections, webhookLogs, reconciliations, clock, req, ver,
                 nodeEnv, eventLogs, accounts, banks, alerts>>

(***************************************************************************)
(* Alert processing: the worker of the queue 'alert-processing'.           *)
(***************************************************************************)
AlertJobTypes == {"SLA_BREACH", "VARIANCE", "MISSED_PTP", "HIGH_OVERDUE", "NO_UPDATE"}

GetAlertSeverity(type) ==
  CASE type \in {"SLA_BREACH", "MISSED_PTP"} -> "ERROR"
    [] type = "HIGH_OVERDUE" -> "CRITICAL"
    [] type \in {"NO_UPDATE", "VARIANCE"} -> "WARNING"
    [] OTHER -> "INFO"

\* alertWorker: prisma.alert.create for the job taken from the queue
AlertWorker(type, accountId) ==
  /\ Len(alerts) < MaxAlert
  /\ alerts' = Append(alerts,
       [type |-> type, severity |-> GetAlertSeverity(type), accountId |-> accountId,
        createdAt |-> clock])
  /\ UNCHANGED <<secrets, collections, webhookLogs, reconciliations, clock, req, ver,
                 nodeEnv, eventLogs, accounts, banks, sweepRuns>>

(***************************************************************************)
(* Inputs.                                                                 *)
(***************************************************************************)
Secret(p) == IF p = "bkash" THEN "k1" ELSE "k2"
TxnIds == {"X1", "X2"}
\* the instant the provider reports for the payment
PaymentMs == 48 * HourMs
ValidDate(ms) == [valid |-> TRUE, ms |-> ms]
GarbageDate == [valid |-> FALSE, ms |-> 0]

MakeBody(txnId, amount, status, date) ==
  [txnId |-> txnId, amount |-> amount, status |-> status, date |-> date]

\* the signature a holder of `secret` computes over timestamp and body
Sign(secret, timestamp, body) ==
  [present |-> TRUE, prefix |-> FALSE,
   hex |-> HexEncode(Hmac(secret, PayloadString(timestamp, body)))]

Init ==
  /\ secrets = [p \in Providers |-> Secret(p)]
  /\ collections = <<>>
  /\ webhookLogs = <<>>
  /\ reconciliations = <<>>
  /\ clock = 1
  /\ req = [r \in Reqs |-> IdleReq]
  /\ ver = [v \in Vers |-> IdleVer]
  /\ nodeEnv = "production"
  /\ eventLogs = <<>>
  /\ accounts = [a \in AccountIds |-> NewAccount(1, 0)]
  /\ banks = [b \in BankIds |-> [depositHours |-> NoSetting, updateDays |-> NoSetting]]
  /\ sweepRuns = <<>>
  /\ alerts = <<>>

Process ==
  \E r \in Reqs :
    \/ CreateLog(r)
    \/ FindExact(r)
    \/ FindFuzzy(r)
    \/ UpdateCollection(r)
    \/ CreateReconciliation(r)

Verify == \E v \in Vers : VerifyUpdate(v) \/ VerifyEventLog(v)

ManualVerify ==
  \E v \in Vers, id \in 1..MaxColl, st \in {"APPROVED", "REJECTED"} :
    VerifyFind(v, id, st, "reason")

(***************************************************************************)
(* Spec: concurrent deliveries of correctly signed SUCCESS payloads (no    *)
(* timestamp header) racing with each other, with submissions and with     *)
(* manual verification.                                                    *)
(***************************************************************************)
RaceBodies == {MakeBody(t, 100, "SUCCESS", ValidDate(PaymentMs)) : t \in TxnIds}

Deliver ==
  \E r \in Reqs, p \in Providers, b \in RaceBodies :
    Receive(r, p, b, <<>>, Sign(Secret(p), <<>>, b), 0)

Submit ==
  \E ty \in {"BKASH", "NAGAD"}, t \in {"X1", "C7"} :
    SubmitCollection(1, ty, 100, PaymentMs, t)

Next == Deliver \/ Submit \/ ManualVerify \/ Process \/ Verify

Spec == Init /\ [][Next]_vars

(***************************************************************************)
(* SpecMatch: deliveries processed one after the other against collections *)
(* that differ in type, transaction id, date and creation time.            *)
(***************************************************************************)
CollectionMs == 48 * HourMs
MatchBodies ==
  {MakeBody("X1", a, "SUCCESS", ValidDate(d)) :
     a \in {100, 200},
     d \in {CollectionMs - 24 * HourMs, CollectionMs + 25 * HourMs}}

\* no webhook request and no verification request is being processed
NoneInFlight ==
  /\ \A q \in Reqs : req[q].pc \in {"idle", "done"}
  /\ \A w \in Vers : ver[w].pc \in {"idle", "done"}

DeliverMatch ==
  /\ NoneInFlight
  /\ \E r \in 1..MaxSeqReq, p \in Providers, b \in MatchBodies :
       Receive(r, p, b, <<>>, Sign(Secret(p), <<>>, b), 0)

SubmitMatch ==
  \E ty \in {"BKASH", "NAGAD"}, t \in {"X1", "C7"},
     d \in {CollectionMs, CollectionMs + HourMs} :
    SubmitCollection(1, ty, 100, d, t)

NextMatch == DeliverMatch \/ SubmitMatch \/ Process

SpecMatch == Init /\ [][NextMatch]_vars


(***************************************************************************)
(* SpecGateway: deliveries with every kind of signature and timestamp      *)
(* header, processed one after the other.                                  *)
(***************************************************************************)
\* Date.now() at the time of the deliveries
NowMs == 1000 * 1000
GatewayBody == MakeBody("X1", 100, "SUCCESS", ValidDate(PaymentMs))
\* the body as the provider signed it, before the amount was altered
SignedBody == MakeBody("X1", 200, "SUCCESS", ValidDate(PaymentMs))

\* x-timestamp values: absent, now, 5 minutes before now, one second more than
\* that, one second more than 5 minutes after now, and text that is no number
Timestamps ==
  { <<>>, <<"1", "0", "0", "0">>, <<"7", "0", "0">>, <<"6", "9", "9">>,
    <<"1", "3", "0", "1">>, <<"a", "b", "c">> }

OtherProvider(p) == IF p = "bkash" THEN "nagad" ELSE "bkash"
Prefixed(sig) == [sig EXCEPT !.prefix = TRUE]
UpperCase(sig) == [sig EXCEPT !.hex = [i \in 1..Len(@) |-> [@[i] EXCEPT !.up = TRUE]]]
WithGarbage(sig) == [sig EXCEPT !.hex = Append(@, BadPair)]
Extended(sig) == [sig EXCEPT !.hex = @ \o @]
Truncated(sig) == [sig EXCEPT !.prefix = TRUE, !.hex = <<>>]
EmptySignature == [present |-> TRUE, prefix |-> FALSE, hex |-> <<>>]

\* x-signature values a sender may attach to (timestamp, body) for provider p
Signatures(p, timestamp, body) ==
  LET good == Sign(Secret(p), timestamp, body)
  IN { NoSignature, EmptySignature,
       good, Prefixed(good), UpperCase(good), WithGarbage(good),
       Sign(Secret(p), timestamp, SignedBody),
       Sign(Secret(OtherProvider(p)), timestamp, body),
       Truncated(good), Extended(good),
       [present |-> TRUE, prefix |-> FALSE, hex |-> <<BadPair>>] }

DeliverGateway ==
  /\ NoneInFlight
  /\ \E r \in 1..MaxSeqReq, p \in Providers, ts \in Timestamps :
       \E sig \in Signatures(p, ts, GatewayBody) :
         Receive(r, p, GatewayBody, ts, sig, NowMs)

SubmitGateway == SubmitCollection(1, "BKASH", 100, PaymentMs, "C7")

NextGateway == DeliverGateway \/ SubmitGateway \/ Process

SpecGateway == Init /\ [][NextGateway]_vars


(***************************************************************************)
(* SpecConfig: every configuration of the two secrets (set or not set);    *)
(* deliveries carry the signatures a sender can compute, among them the    *)
(* HMAC under the empty key.                                               *)
(***************************************************************************)
InitConfig ==
  /\ secrets \in [Providers -> {"k1", "k2", NoSecret}]
  /\ \A p \in Providers : secrets[p] \in {Secret(p), NoSecret}
  /\ collections = <<>>
  /\ webhookLogs = <<>>
  /\ reconciliations = <<>>
  /\ clock = 1
  /\ req = [r \in Reqs |-> IdleReq]
  /\ ver = [v \in Vers |-> IdleVer]
  /\ nodeEnv = "production"
  /\ eventLogs = <<>>
  /\ accounts = [a \in AccountIds |-> NewAccount(1, 0)]
  /\ banks = [b \in BankIds |-> [depositHours |-> NoSetting, updateDays |-> NoSetting]]
  /\ sweepRuns = <<>>
  /\ alerts = <<>>

ConfigTimestamps == { <<>>, <<"1", "0", "0", "0">> }

ConfigSignatures(p, timestamp, body) ==
  { NoSignature, EmptySignature,
    Sign(Secret(p), timestamp, body),
    Sign(NoSecret, timestamp, body), Prefixed(Sign(NoSecret, timestamp, body)),
    Truncated(Sign(NoSecret, timestamp, body)) }

DeliverConfig ==
  /\ NoneInFlight
  /\ \E r \in 1..MaxSeqReq, p \in Providers, ts \in ConfigTimestamps :
       \E sig \in ConfigSignatures(p, ts, GatewayBody) :
         Receive(r, p, GatewayBody, ts, sig, NowMs)

SubmitConfig == \E t \in {"X1", "C7"} : SubmitCollection(1, "BKASH", 100, PaymentMs, t)

NextConfig == DeliverConfig \/ SubmitConfig \/ Process

SpecConfig == InitConfig /\ [][NextConfig]_vars

(***************************************************************************)
(* SpecEvents: correctly signed deliveries, one after the other, of bodies *)
(* with every kind of status and with amounts the schema accepts or not.   *)
(***************************************************************************)
EventStatuses == {"SUCCESS", "COMPLETED", "FAILED", "success"}
EventAmounts == {100, 0, -100}
EventBodies ==
  {MakeBody("X1", a, st, ValidDate(PaymentMs)) : a \in EventAmounts, st \in EventStatuses}

DeliverEvents ==
  /\ NoneInFlight
  /\ \E r \in 1..MaxSeqReq, p \in Providers, b \in EventBodies :
       Receive(r, p, b, <<>>, Sign(Secret(p), <<>>, b), 0)

SubmitEvents ==
  \E ty \in {"BKASH", "NAGAD"}, t \in {"X1", "C7"} :
    SubmitCollection(1, ty, 100, PaymentMs, t)

NextEvents == DeliverEvents \/ SubmitEvents \/ Process

SpecEvents == Init /\ [][NextEvents]_vars

(***************************************************************************)
(* SpecFailure: deliveries and redeliveries, one after the other, against  *)
(* a database whose calls may fail.                                        *)
(***************************************************************************)
DeliverFailure ==
  /\ NoneInFlight
  /\ \E r \in Reqs, p \in Providers, b \in RaceBodies :
       Receive(r, p, b, <<>>, Sign(Secret(p), <<>>, b), 0)

Fail == \E r \in Reqs, e \in DbErrorClasses : DbFailure(r, e)

NextFailure == DeliverFailure \/ Submit \/ Process \/ Fail

SpecFailure == Init /\ [][NextFailure]_vars


(***************************************************************************)
(* SpecSweep: submissions, manual verification and the passing of time,    *)
(* with runs of the SLA sweep, for banks with and without configured SLA   *)
(* settings.                                                               *)
(***************************************************************************)
\* NOW() at the start, in hours
SweepStart == 400
\* the time that passes during a behaviour is at most this many hours
MaxAdvance == 26
AdvanceHours == {12, 13}

\* bank 1 has its SLA settings configured, bank 2 has none
SweepBanks ==
  [b \in BankIds |->
     IF b = 1 THEN [depositHours |-> 12, updateDays |-> 1]
     ELSE [depositHours |-> NoSetting, updateDays |-> NoSetting]]
\* accounts created half a day, or six and a half days, before the start
AccountRows ==
  {NewAccount(b, SweepStart - h) : b \in BankIds, h \in {12, 156}}

InitSweep ==
  /\ secrets = [p \in Providers |-> Secret(p)]
  /\ collections = <<>>
  /\ webhookLogs = <<>>
  /\ reconciliations = <<>>
  /\ clock = SweepStart
  /\ req = [r \in Reqs |-> IdleReq]
  /\ ver = [v \in Vers |-> IdleVer]
  /\ nodeEnv = "production"
  /\ eventLogs = <<>>
  /\ accounts \in [AccountIds -> AccountRows]
  /\ banks = SweepBanks
  /\ sweepRuns = <<>>
  /\ alerts = <<>>

\* time passes
Advance ==
  \E h \in AdvanceHours :
    /\ clock + h <= SweepStart + MaxAdvance
    /\ clock' = clock + h
    /\ UNCHANGED <<secrets, collections, webhookLogs, reconciliations, req, ver,
                   nodeEnv, eventLogs, accounts, banks, sweepRuns, alerts>>

SubmitSweep ==
  \E a \in AccountIds, ty \in {"CASH", "BANK_DEPOSIT", "BKASH"} :
    /\ (ty # "CASH" => a = 1)
    /\ SubmitCollection(a, ty, 100, PaymentMs, IF ty = "BKASH" THEN "X1" ELSE "")

VerifySweep ==
  \E v \in Vers, id \in 1..MaxColl : VerifyFind(v, id, "REJECTED", "reason")

Contact == \E a \in AccountIds : RecordUpdate(a)

AlertJob == \E ty \in {"SLA_BREACH", "NO_UPDATE"}, a \in AccountIds : AlertWorker(ty, a)

NextSweep == SubmitSweep \/ VerifySweep \/ Verify \/ Advance \/ CheckSlaBreaches

SpecSweep == InitSweep /\ [][NextSweep]_vars

(***************************************************************************)
(* SpecContact: accounts, recorded contacts and the passing of time, with  *)
(* runs of the SLA sweep.                                                  *)
(***************************************************************************)
NextContact == Contact \/ Advance \/ CheckSlaBreaches

SpecContact == InitSweep /\ [][NextContact]_vars

(***************************************************************************)
(* SpecTest: requests to the test route of a service started in any        *)
(* environment, with submitted collections.                                *)
(***************************************************************************)
\* values of NODE_ENV; "" is the variable not being set
Environments == {"production", "development", "test", "staging", ""}

InitTest ==
  /\ secrets = [p \in Providers |-> Secret(p)]
  /\ collections = <<>>
  /\ webhookLogs = <<>>
  /\ reconciliations = <<>>
  /\ clock = 1
  /\ req = [r \in Reqs |-> IdleReq]
  /\ ver = [v \in Vers |-> IdleVer]
  /\ nodeEnv \in Environments
  /\ eventLogs = <<>>
  /\ accounts = [a \in AccountIds |-> NewAccount(1, 0)]
  /\ banks = [b \in BankIds |-> [depositHours |-> NoSetting, updateDays |-> NoSetting]]
  /\ sweepRuns = <<>>
  /\ alerts = <<>>

TestBodies ==
  {MakeBody(t, a, st, GarbageDate) : t \in {"X1", ""}, a \in {0, 100}, st \in {"", "FAILED"}}

DeliverTest ==
  \E r \in Reqs, p \in Providers \cup {"rocket"}, b \in TestBodies :
    NoneInFlight /\ ReceiveTest(r, p, b, PaymentMs)

SubmitTest ==
  /\ NoneInFlight
  /\ SubmitCollection(1, "BKASH", 100, CollectionMs, "X1")

NextTest == DeliverTest \/ SubmitTest \/ Process

SpecTest == InitTest /\ [][NextTest]_vars

(***************************************************************************)
(* SpecVerify: manual verification of submitted collections, before,       *)
(* while and after a correctly signed delivery claims them.                *)
(***************************************************************************)
DeliverVerify ==
  /\ \A q \in Reqs : req[q].pc \in {"idle", "done"}
  /\ \E r \in 1..MaxSeqReq :
       Receive(r, "bkash", GatewayBody, <<>>, Sign(Secret("bkash"), <<>>, GatewayBody), 0)

SubmitVerify == SubmitCollection(1, "BKASH", 100, PaymentMs, "X1")

NextVerify == DeliverVerify \/ SubmitVerify \/ ManualVerify \/ Verify \/ Process

SpecVerify == Init /\ [][NextVerify]_vars

(***************************************************************************)
(* SpecFuzzy: correctly signed deliveries, one at a time, over submitted   *)
(* collections of every type, of two amounts, inside and outside the       *)
(* window, some of them rejected by manual verification.                   *)
(***************************************************************************)
\* a collection date more than 24 hours from the payment
OutsideMs == CollectionMs + 25 * HourMs

FuzzyTemplates ==
  { <<"BKASH", 100, CollectionMs>>, <<"BKASH", 200, CollectionMs>>,
    <<"BKASH", 100, OutsideMs>>, <<"NAGAD", 100, CollectionMs>>,
    <<"CASH", 100, CollectionMs>>, <<"BANK_DEPOSIT", 100, CollectionMs>> }

DeliverFuzzy ==
  /\ NoneInFlight
  /\ \E r \in 1..MaxSeqReq, p \in Providers :
       Receive(r, p, GatewayBody, <<>>, Sign(Secret(p), <<>>, GatewayBody), 0)

SubmitFuzzy ==
  \E t \in FuzzyTemplates :
    SubmitCollection(1, t[1], t[2], t[3], IF t[1] \in {"BKASH", "NAGAD"} THEN "C7" ELSE "")

VerifyFuzzy ==
  /\ NoneInFlight
  /\ \E v \in Vers, id \in 1..MaxColl : VerifyFind(v, id, "REJECTED", "reason")

NextFuzzy == DeliverFuzzy \/ SubmitFuzzy \/ VerifyFuzzy \/ Verify \/ Process

SpecFuzzy == Init /\ [][NextFuzzy]_vars

(***************************************************************************)
(* SpecLabel: correctly signed deliveries, one at a time, with collections *)
(* submitted before and while a delivery is processed.                     *)
(***************************************************************************)
DeliverLabel ==
  /\ \A q \in Reqs : req[q].pc \in {"idle", "done"}
  /\ \E r \in Reqs, b \in RaceBodies :
       Receive(r, "bkash", b, <<>>, Sign(Secret("bkash"), <<>>, b), 0)

SubmitLabel ==
  \E t \in {"X1", "C7"} : SubmitCollection(1, "BKASH", 100, PaymentMs, t)

NextLabel == DeliverLabel \/ SubmitLabel \/ Process

SpecLabel == Init /\ [][NextLabel]_vars

(***************************************************************************)
(* SpecAlert: runs of the SLA sweep and alert jobs as time passes.         *)
(***************************************************************************)
NextAlert == AlertJob \/ Advance \/ CheckSlaBreaches

SpecAlert == InitSweep /\ [][NextAlert]_vars


(***************************************************************************)
(* Properties.                                                             *)
(***************************************************************************)
\* the request passed the gateway (signature, timestamp and schema)
Accepted(r) == req[r].pc # "idle" /\ req[r].step \notin {"verify", "schema"}
SamePayload(q, r) ==
  /\ req[q].provider = req[r].provider
  /\ req[q].body = req[r].body
  /\ req[q].timestamp = req[r].timestamp
\* request r has executed its collection update on row c
Updated(r, c) ==
  /\ req[r].sel = c
  /\ req[r].pc = "createRecon" \/ (req[r].pc = "done" /\ req[r].res.matched)
LogsOf(r) ==
  {i \in 1..Len(webhookLogs) :
     /\ webhookLogs[i].provider = ProviderType(req[r].provider)
     /\ webhookLogs[i].txnId = req[r].body.txnId}
\* the step of request r that is taken leaves the position `at`
Leaves(r, at) == req[r].pc = at /\ req'[r].pc # at
\* the update of request r changes the row it selected, and no other row
ClaimsSelected(r) ==
  /\ collections'[req[r].sel].status = "APPROVED"
  /\ collections'[req[r].sel].isMatched
  /\ \A d \in CollIds : d # req[r].sel => collections'[d] = collections[d]

\* C1 (as claimed): once every delivery of an accepted payload is answered,
\* there is exactly one delivery record for its (provider, external id),
\* exactly one Reconciliation of it, and exactly one collection was moved out
\* of PENDING by it.
C1_Idempotence ==
  \A r \in Reqs :
    (/\ Accepted(r)
     /\ \A q \in Reqs : (Accepted(q) /\ SamePayload(q, r)) => req[q].pc = "done")
    => /\ Cardinality(LogsOf(r)) = 1
       /\ Cardinality({j \in 1..Len(reconciliations) :
                         reconciliations[j].webhookLogId \in LogsOf(r)}) = 1
       /\ Cardinality({q \in Reqs : SamePayload(q, r) /\ req[q].res.matched}) = 1

\* C2 (as claimed): in every reachable state each collection has at most one
\* Reconciliation with outcome MATCHED, and at most one event has set its
\* matched flag.
C2_RaceSafety ==
  \A c \in CollIds :
    /\ Cardinality({j \in 1..Len(reconciliations) :
                      /\ reconciliations[j].collectionId = c
                      /\ reconciliations[j].status = "MATCHED"}) <= 1
    /\ Cardinality({r \in Reqs : Updated(r, c)}) <= 1

\* C3 (as claimed): a delivery of a (provider, external id) that was already
\* processed and answered is answered with the same matched flag and
\* collection id as the first one, without running the matcher again.
C3_ReplaySameResult ==
  \A r \in Reqs :
    (req[r].pc = "done" /\ Accepted(r) /\ req[r].replayOf # 0)
    => /\ req[r].res = req[req[r].replayOf].res
       /\ req[r].step \notin {"exact", "fuzzy", "noMatch"}

\* C4 (as claimed): the status of a collection changes only from PENDING to
\* APPROVED or from PENDING to REJECTED; the status of an APPROVED or REJECTED
\* collection never changes and no webhook update modifies such a row.
C4_OneWayStatus ==
  [][\A c \in CollIds :
       /\ collections'[c].status # collections[c].status
            => /\ collections[c].status = "PENDING"
               /\ collections'[c].status \in {"APPROVED", "REJECTED"}
       /\ collections[c].status # "PENDING"
            => \A r \in Reqs : Leaves(r, "update") => collections'[c] = collections[c]
    ]_vars

\* the collection is PENDING, of the event's provider, and carries the event's id
CarriesEventId(c, r) ==
  /\ collections[c].type = (IF req[r].provider = "bkash" THEN "BKASH" ELSE "NAGAD")
  /\ collections[c].status = "PENDING"
  /\ collections[c].txnId = req[r].body.txnId
\* the collection meets the amount/type/status criteria of the fuzzy step
OtherwiseEligible(c, r) ==
  /\ collections[c].type = (IF req[r].provider = "bkash" THEN "BKASH" ELSE "NAGAD")
  /\ collections[c].amount = req[r].body.amount
  /\ collections[c].status = "PENDING"
  /\ ~collections[c].isMatched
WithinWindow24h(t, eventTime) ==
  eventTime - 24 * 3600000 <= t /\ t <= eventTime + 24 * 3600000

\* C5: whenever the exact lookup of a SUCCESS event runs while some PENDING
\* collection of the event's provider carries the event's external id, a
\* collection carrying it is selected (the fuzzy step is not run), and the
\* selected collection is the one claimed, whatever other collections exist.
C5_ExactPrecedence ==
  [][\A r \in Reqs :
       /\ (Leaves(r, "findExact") /\ \E c \in CollIds : CarriesEventId(c, r))
            => (req'[r].pc = "update" /\ CarriesEventId(req'[r].sel, r))
       /\ (Leaves(r, "update") /\ req[r].step = "exact") => ClaimsSelected(r)
    ]_vars

\* C5 witness: an exact match was claimed although an older collection met
\* every criterion of the fuzzy step.
C5_Witness ==
  \E r \in Reqs :
    /\ req[r].pc = "createRecon" /\ req[r].step = "exact"
    /\ collections[req[r].sel].status = "APPROVED"
    /\ \E d \in CollIds :
         /\ collections[d].createdAt < collections[req[r].sel].createdAt
         /\ OtherwiseEligible(d, r)
         /\ WithinWindow24h(collections[d].collectionDate, req[r].body.date.ms)

\* C6: the collection selected by the fuzzy step is an eligible candidate and
\* no eligible candidate was created earlier; it is the one claimed.
C6_FifoTieBreak ==
  [][\A r \in Reqs :
       /\ (Leaves(r, "findFuzzy") /\ req'[r].pc = "update")
            => /\ OtherwiseEligible(req'[r].sel, r)
               /\ \A d \in CollIds :
                    (/\ OtherwiseEligible(d, r)
                     /\ WithinWindow24h(collections[d].collectionDate,
                                        req[r].body.date.ms))
                    => collections[req'[r].sel].createdAt <= collections[d].createdAt
       /\ (Leaves(r, "update") /\ req[r].step = "fuzzy") => ClaimsSelected(r)
    ]_vars

\* C6 witness: the fuzzy step selected a collection while a later-created
\* collection was eligible too.
C6_Witness ==
  \E r \in Reqs :
    /\ req[r].pc = "update" /\ req[r].step = "fuzzy"
    /\ \E d \in CollIds :
         /\ collections[d].createdAt > collections[req[r].sel].createdAt
         /\ OtherwiseEligible(d, r)
         /\ WithinWindow24h(collections[d].collectionDate, req[r].body.date.ms)

\* C7: the fuzzy step selects only collections whose collection date t
\* satisfies eventTime - 24h <= t <= eventTime + 24h, and it selects one
\* whenever a collection meeting the other criteria lies in that closed
\* interval (the boundaries included).
C7_WindowBoundary ==
  [][\A r \in Reqs :
       (Leaves(r, "findFuzzy") /\ req[r].body.date.valid)
       => /\ req'[r].pc = "update"
               => WithinWindow24h(collections[req'[r].sel].collectionDate,
                                  req[r].body.date.ms)
          /\ (\E c \in CollIds :
                /\ OtherwiseEligible(c, r)
                /\ WithinWindow24h(collections[c].collectionDate, req[r].body.date.ms))
               => req'[r].pc = "update"
    ]_vars

\* C7 witness: the collection selected lies exactly 24h after the event time,
\* while an older collection meeting the other criteria, 25h after the event
\* time, was passed over.
C7_Witness ==
  \E r \in Reqs :
    /\ req[r].pc = "update" /\ req[r].step = "fuzzy"
    /\ collections[req[r].sel].collectionDate = req[r].body.date.ms + 24 * 3600000
    /\ \E d \in CollIds :
         /\ collections[d].createdAt < collections[req[r].sel].createdAt
         /\ OtherwiseEligible(d, r)
         /\ collections[d].collectionDate = req[r].body.date.ms + 25 * 3600000

\* C8 (as claimed): a request with a signature whose digest is not the HMAC of
\* the received timestamp and body is answered 401 and creates no delivery
\* record.
C8_SignatureIntegrity ==
  \A r \in Reqs :
    (/\ req[r].pc # "idle"
     /\ req[r].signature.present
     /\ HexDecode(req[r].signature.hex) #
          Hmac(Secret(req[r].provider), PayloadString(req[r].timestamp, req[r].body)))
    => (req[r].pc = "done" /\ req[r].res.status = 401 /\ req[r].logId = 0)

\* C9: a request without signature header is answered 401 by the step that
\* receives it, and that step changes no table.
C9_MissingSignature ==
  [][\A r \in Reqs :
       (req[r].pc = "idle" /\ req'[r].pc # "idle" /\ ~req'[r].signature.present)
       => /\ req'[r].pc = "done"
          /\ req'[r].res = Response(401, FALSE, 0)
          /\ req'[r].logId = 0
          /\ UNCHANGED db
    ]_vars

\* C9 witness: a request without signature header was answered 401 although a
\* collection it could have matched was pending.
C9_Witness ==
  \E r \in Reqs :
    /\ req[r].pc = "done" /\ ~req[r].signature.present
    /\ req[r].res.status = 401
    /\ \E c \in CollIds : OtherwiseEligible(c, r)

\* C10 (as claimed): every request with a timestamp header that is passed on
\* to processing has a timestamp that reads as a time within 5 minutes of the
\* current time; every other request with a timestamp header is answered 401
\* and creates no delivery record.
TimestampFresh(r) ==
  /\ ~IsNaN(ParseInt(req[r].timestamp))
  /\ ParseInt(req[r].timestamp)[1] * 1000 - req[r].now <= 5 * 60 * 1000
  /\ req[r].now - ParseInt(req[r].timestamp)[1] * 1000 <= 5 * 60 * 1000
C10_ReplayDefence ==
  \A r \in Reqs :
    (req[r].pc # "idle" /\ req[r].timestamp # <<>>)
    => /\ req[r].step # "verify" => TimestampFresh(r)
       /\ (~TimestampFresh(r) /\ req[r].signature =
             Sign(Secret(req[r].provider), req[r].timestamp, req[r].body))
            => (req[r].pc = "done" /\ req[r].res.status = 401 /\ req[r].logId = 0)

\* C11: a request to the endpoint of a provider whose secret is not configured
\* is answered, by the step that receives it, with an error status and
\* matched = false; it is not passed on to processing, creates no delivery
\* record and changes no table, whatever signature it carries.
C11_MisconfigurationFailsLoudly ==
  [][\A r \in Reqs :
       (/\ req[r].pc = "idle" /\ req'[r].pc # "idle"
        /\ secrets[req'[r].provider] = NoSecret)
       => /\ req'[r].pc = "done"
          /\ req'[r].res.status >= 400
          /\ ~req'[r].res.matched
          /\ req'[r].logId = 0
          /\ UNCHANGED db
    ]_vars

\* C11 witness: with no secret configured, a request signed with the HMAC
\* under the empty key was answered 500 although a collection it could have
\* matched was pending.
C11_Witness ==
  \E r \in Reqs :
    /\ req[r].pc = "done" /\ secrets[req[r].provider] = NoSecret
    /\ req[r].signature = Sign(NoSecret, req[r].timestamp, req[r].body)
    /\ req[r].res.status = 500
    /\ \E c \in CollIds : OtherwiseEligible(c, r)

\* C12: a correctly signed request whose body fails the schema (an amount
\* that is not positive) is answered 400 by the step that receives it; that
\* step creates no delivery record, no Reconciliation and changes no
\* collection, and the request is not passed on to processing.
C12_SchemaRejection ==
  [][\A r \in Reqs :
       (/\ req[r].pc = "idle" /\ req'[r].pc # "idle"
        /\ req'[r].signature =
             Sign(Secret(req'[r].provider), req'[r].timestamp, req'[r].body)
        /\ req'[r].body.amount <= 0)
       => /\ req'[r].pc = "done"
          /\ req'[r].res = Response(400, FALSE, 0)
          /\ req'[r].logId = 0
          /\ UNCHANGED db
    ]_vars

\* C12 witness: a correctly signed request with amount 0 was answered 400
\* while a PENDING collection carrying its transaction id existed, and no
\* delivery record was written.
C12_Witness ==
  \E r \in Reqs :
    /\ req[r].pc = "done" /\ req[r].body.amount = 0
    /\ req[r].signature = Sign(Secret(req[r].provider), req[r].timestamp, req[r].body)
    /\ req[r].res.status = 400
    /\ \E c \in CollIds : CarriesEventId(c, r)
    /\ webhookLogs = <<>>

\* the row is a delivery record of the (provider, external id) of request r
RecordOf(row, r) ==
  /\ row.provider = (IF req[r].provider = "bkash" THEN "BKASH" ELSE "NAGAD")
  /\ row.txnId = req[r].body.txnId

\* C13: the insert of the delivery record of an accepted event whose status
\* is neither SUCCESS nor COMPLETED ends the processing: a delivery record of
\* the event's (provider, external id) exists (it is written with the event's
\* status when there was none), no candidate is looked up or selected, no
\* collection changes, no Reconciliation is written and the answer reports
\* no match.
C13_OnlySuccessMatches ==
  [][\A r \in Reqs :
       (Leaves(r, "createLog") /\ req[r].body.status \notin {"SUCCESS", "COMPLETED"})
       => /\ req'[r].pc = "done"
          /\ req'[r].sel = 0
          /\ ~req'[r].res.matched
          /\ \E i \in 1..Len(webhookLogs') : RecordOf(webhookLogs'[i], r)
          /\ (\A i \in 1..Len(webhookLogs) : ~RecordOf(webhookLogs[i], r))
               => /\ Len(webhookLogs') = Len(webhookLogs) + 1
                  /\ webhookLogs'[Len(webhookLogs')].status = req[r].body.status
          /\ UNCHANGED <<collections, reconciliations>>
    ]_vars

\* C13 witness: an event with status FAILED was recorded and answered without
\* a match while a PENDING collection carrying its transaction id existed.
C13_Witness ==
  \E r \in Reqs :
    /\ req[r].pc = "done" /\ req[r].body.status = "FAILED"
    /\ req[r].logId # 0 /\ webhookLogs[req[r].logId].status = "FAILED"
    /\ req[r].res = Response(200, FALSE, 0)
    /\ \E c \in CollIds : CarriesEventId(c, r)

\* the Reconciliation rows linked to the delivery record written by request r
ReconciliationsOf(r) ==
  {j \in 1..Len(reconciliations) : reconciliations[j].webhookLogId = req[r].logId}

\* C14 (as claimed): every answered first-time accepted event (its delivery
\* record was written) has exactly one Reconciliation; when no candidate was
\* found that Reconciliation has outcome UNMATCHED.
C14_EveryEventReconciled ==
  \A r \in Reqs :
    (req[r].pc = "done" /\ Accepted(r) /\ req[r].logId # 0)
    => /\ Cardinality(ReconciliationsOf(r)) = 1
       /\ req[r].step = "noMatch"
            => \A j \in ReconciliationsOf(r) : reconciliations[j].status = "UNMATCHED"

\* C15 (as claimed): an update that finds the selected collection no longer
\* PENDING or already matched changes no collection, selects no other
\* candidate and does not lead to a MATCHED Reconciliation.
C15_AtomicClaim ==
  [][\A r \in Reqs :
       (/\ Leaves(r, "update")
        /\ (collections[req[r].sel].status # "PENDING" \/ collections[req[r].sel].isMatched))
       => /\ collections' = collections
          /\ req'[r].pc \notin {"findExact", "findFuzzy", "update", "createRecon"}
          /\ ~req'[r].res.matched
    ]_vars

\* the delivery record written by request r is in the table
Recorded(r) == req[r].logId \in 1..Len(webhookLogs)

\* C16 (as claimed): after a request ended with the failure of one of its
\* database calls, its delivery record is not in the table, and the
\* collection it selected is not left APPROVED and matched without a
\* Reconciliation.
C16_NoPartialState ==
  \A r \in Reqs :
    (req[r].pc = "done" /\ req[r].step = "dbError")
    => /\ ~Recorded(r)
       /\ req[r].failedAt = "createRecon"
            => ~(/\ collections[req[r].sel].status = "APPROVED"
                 /\ collections[req[r].sel].isMatched
                 /\ \A j \in 1..Len(reconciliations) :
                      reconciliations[j].collectionId # req[r].sel)

\* C17 (as claimed): a request that ended with the failure of one of its
\* database calls is answered with a 5xx status.
C17_PersistenceFailure5xx ==
  \A r \in Reqs :
    (req[r].pc = "done" /\ req[r].step = "dbError")
    => (req[r].res.status >= 500 /\ req[r].res.status <= 599)

\* C18 (as claimed): the update of a claim leaves the selected collection
\* APPROVED, matched, with matchedAt set and matchSource WEBHOOK; the answer
\* of the request reports matched = true and the collection's id.
C18_ClaimPostcondition ==
  [][\A r \in Reqs :
       /\ Leaves(r, "update")
            => /\ collections'[req[r].sel].status = "APPROVED"
               /\ collections'[req[r].sel].isMatched
               /\ collections'[req[r].sel].matchedAt # 0
               /\ collections'[req[r].sel].matchSource = "WEBHOOK"
       /\ (Leaves(r, "createRecon") /\ req'[r].pc = "done" /\ req'[r].res.status = 200)
            => req'[r].res = Response(200, TRUE, req[r].sel)
    ]_vars

\* C19 (as claimed): the update of a claim keeps a non-empty transaction id
\* of the collection and fills an empty one with the event's id.
C19_TxnIdOnlyBackfilled ==
  [][\A r \in Reqs :
       Leaves(r, "update")
       => collections'[req[r].sel].txnId =
            (IF collections[req[r].sel].txnId = "" THEN req[r].body.txnId
             ELSE collections[req[r].sel].txnId)
    ]_vars

\* C20: every lookup of a candidate and every collection update of a request
\* happens while the delivery record that the request wrote for its event is
\* in the table.
C20_RecordingPrecedesMatching ==
  [][\A r \in Reqs :
       (Leaves(r, "findExact") \/ Leaves(r, "findFuzzy") \/ Leaves(r, "update"))
       => /\ req[r].logId \in 1..Len(webhookLogs)
          /\ RecordOf(webhookLogs[req[r].logId], r)
          /\ webhookLogs[req[r].logId].amount = req[r].body.amount
    ]_vars

\* C20 witness: a collection was claimed by a request whose delivery record
\* is in the table.
C20_Witness ==
  \E r \in Reqs :
    /\ req[r].pc = "createRecon"
    /\ collections[req[r].sel].status = "APPROVED"
    /\ req[r].logId \in 1..Len(webhookLogs)
    /\ RecordOf(webhookLogs[req[r].logId], r)

\* C21: a run of the SLA sweep returns a DEPOSIT_DELAY row exactly for the
\* PENDING CASH and BANK_DEPOSIT collections older than the deposit SLA of
\* their bank, and the severity of the row of such a collection is CRITICAL
\* exactly when its age exceeds twice that SLA.
C21_SeverityRelativeToSla ==
  [][sweepRuns' # sweepRuns =>
       LET run == sweepRuns'[Len(sweepRuns')]
           rows == SelectSeq(run.rows, LAMBDA w : w.breach_type = "DEPOSIT_DELAY")
           ageHours(c) == clock - collections[c].createdAt
           slaHours(c) ==
             LET h == banks[accounts[collections[c].accountId].bankId].depositHours
             IN IF h = NoSetting THEN 48 ELSE h
           due(c) == /\ collections[c].status = "PENDING"
                     /\ collections[c].type \in {"CASH", "BANK_DEPOSIT"}
                     /\ ageHours(c) > slaHours(c)
       IN /\ Len(rows) = Cardinality({c \in 1..Len(collections) : due(c)})
          /\ \A c \in 1..Len(collections) :
               due(c) =>
                 \E i \in 1..Len(rows) :
                   /\ rows[i].account_id = collections[c].accountId
                   /\ rows[i].breach_hours = ageHours(c)
                   /\ (rows[i].severity = "CRITICAL") = (ageHours(c) > 2 * slaHours(c))
    ]_vars

\* C22: over all runs of the SLA sweep there is at most one candidate, and
\* over all processed alert jobs at most one alert, for a type, an account
\* and a day.
C22_OneAlertPerTypeAccountDay ==
  LET Day(t) == t \div 24
      Candidates ==
        {<<i, j>> : i \in 1..Len(sweepRuns), j \in 1..(MaxColl + MaxAcct)}
      Row(k) == sweepRuns[k[1]].rows[k[2]]
      Real(k) == k[2] <= Len(sweepRuns[k[1]].rows)
  IN /\ \A k, l \in Candidates :
          ( /\ Real(k) /\ Real(l)
            /\ Row(k).breach_type = Row(l).breach_type
            /\ Row(k).account_id = Row(l).account_id
            /\ Day(sweepRuns[k[1]].at) = Day(sweepRuns[l[1]].at) ) => k = l
     /\ \A i, j \in 1..Len(alerts) :
          ( /\ alerts[i].type = alerts[j].type
            /\ alerts[i].accountId = alerts[j].accountId
            /\ Day(alerts[i].createdAt) = Day(alerts[j].createdAt) ) => i = j

C24_TestRouteOnlyInDevelopment ==
  nodeEnv # "development" =>
    \A r \in Reqs :
      req[r].route = "/test" =>
        /\ req[r].pc = "done"
        /\ req[r].res.status = 403
        /\ req[r].logId = 0
        /\ req[r].sel = 0

\* C25: a verification request that finds its collection with a status
\* other than PENDING is answered 400 and changes no collection and writes
\* no event log entry, then and ever after.
C25_NonPendingRefused ==
  [][\A v \in Vers :
       /\ ( /\ ver[v].pc = "idle" /\ ver'[v].pc # "idle"
            /\ ver'[v].id \in CollIds
            /\ collections[ver'[v].id].status # "PENDING" )
          => /\ ver'[v].pc = "done"
             /\ ver'[v].res = 400
             /\ collections' = collections
             /\ eventLogs' = eventLogs
       /\ (ver[v].pc = "done" /\ ver[v].res = 400) => ver'[v] = ver[v]
    ]_vars

\* C25 witness: a verification request for a collection that a delivery had
\* approved was answered 400, and the collection is as the delivery left it.
C25_Witness ==
  \E v \in Vers :
    /\ ver[v].pc = "done"
    /\ ver[v].res = 400
    /\ collections[ver[v].id].status = "APPROVED"
    /\ collections[ver[v].id].isMatched
    /\ ~collections[ver[v].id].verified
    /\ \A i \in 1..Len(eventLogs) : eventLogs[i].action # "UPDATE"

\* C26: the collection that the fuzzy lookup of a request selects has, at
\* the time of the lookup, the type of the event's provider, status PENDING,
\* isMatched false, the amount of the event, and a collection date at most
\* 24 hours from the event's date.
C26_FuzzyEligibility ==
  [][\A r \in Reqs :
       (req[r].pc = "findFuzzy" /\ req'[r].step = "fuzzy") =>
         LET c == collections[req'[r].sel]
             dist == c.collectionDate - req[r].body.date.ms
         IN /\ req'[r].sel \in CollIds
            /\ c.type = (IF req[r].provider = "bkash" THEN "BKASH" ELSE "NAGAD")
            /\ c.status = "PENDING"
            /\ c.isMatched = FALSE
            /\ c.amount = req[r].body.amount
            /\ dist <= 24 * HourMs /\ -dist <= 24 * HourMs
    ]_vars

\* C26 witness: the fuzzy lookup selected a collection while a collection
\* of another type, PENDING, unmatched, of the event's amount and inside the
\* window, was in the table.
C26_Witness ==
  \E r \in Reqs, d \in CollIds :
    /\ req[r].pc = "update"
    /\ req[r].step = "fuzzy"
    /\ d # req[r].sel
    /\ collections[d].type \in {"CASH", "BANK_DEPOSIT"}
    /\ collections[d].status = "PENDING"
    /\ ~collections[d].isMatched
    /\ collections[d].amount = req[r].body.amount
    /\ collections[d].collectionDate = req[r].body.date.ms

\* C27: the MATCHED reconciliation a request writes has match type EXACT
\* exactly when the identifier stored on the selected collection, as the
\* lookup read it, is the event's identifier; it is EXACT for every
\* collection the exact lookup selected, and FUZZY for a collection whose
\* stored identifier was empty or another one.
C27_LabelByStoredIdentifier ==
  [][\A r \in Reqs :
       Leaves(r, "createRecon") =>
         LET row == reconciliations'[Len(reconciliations')]
         IN /\ Len(reconciliations') = Len(reconciliations) + 1
            /\ row.status = "MATCHED"
            /\ row.collectionId = req[r].sel
            /\ row.matchType \in {"EXACT", "FUZZY"}
            /\ (row.matchType = "EXACT") = (req[r].selTxnId = req[r].body.txnId)
            /\ (req[r].step = "exact" => row.matchType = "EXACT")
    ]_vars

\* C27 as stated: the match type is EXACT exactly when the exact lookup
\* selected the collection, and FUZZY exactly when the fuzzy lookup did.
C27_LabelByStep ==
  [][\A r \in Reqs :
       Leaves(r, "createRecon") =>
         LET row == reconciliations'[Len(reconciliations')]
         IN /\ (row.matchType = "EXACT") = (req[r].step = "exact")
            /\ (row.matchType = "FUZZY") = (req[r].step = "fuzzy")
    ]_vars

\* C27 witness: reconciliations of both match types were written, the
\* FUZZY one for a collection that the fuzzy lookup selected with another
\* identifier stored on it.
C27_Witness ==
  /\ \E i \in 1..Len(reconciliations) : reconciliations[i].matchType = "EXACT"
  /\ \E r \in Reqs, i \in 1..Len(reconciliations) :
       /\ req[r].pc = "done"
       /\ req[r].step = "fuzzy"
       /\ req[r].selTxnId = "C7"
       /\ reconciliations[i].collectionId = req[r].sel
       /\ reconciliations[i].matchType = "FUZZY"

\* C28: every request that has entered processBkashWebhook or
\* processNagadWebhook (it is at one of their database calls, or has written
\* its delivery record) carries a signature that verifyWebhookSignature
\* accepts for the secret of its provider.
C28_ProcessingOnlyWhenSigned ==
  \A r \in Reqs :
    (req[r].pc \in DbCalls \/ req[r].logId # 0) =>
      VerifyWebhookSignature(secrets[req[r].provider], req[r].signature,
                             req[r].timestamp, req[r].body, req[r].now) = 0

\* C29: every collection with isMatched = true has status APPROVED, and
\* every MATCHED reconciliation references a collection that is APPROVED
\* and matched.
C29_MatchedIsApproved ==
  /\ \A c \in CollIds : collections[c].isMatched => collections[c].status = "APPROVED"
  /\ \A i \in 1..Len(reconciliations) :
       reconciliations[i].status = "MATCHED" =>
         /\ reconciliations[i].collectionId \in CollIds
         /\ collections[reconciliations[i].collectionId].status = "APPROVED"
         /\ collections[reconciliations[i].collectionId].isMatched

\* C30: the collection that the update of a request approves has the amount
\* of the request's event.
C30_ApprovedAmountEqualsEvent ==
  [][\A r \in Reqs :
       Leaves(r, "update") =>
         /\ collections'[req[r].sel].status = "APPROVED"
         /\ collections'[req[r].sel].amount = req[r].body.amount
    ]_vars

====
